---- MODULE Spec2Model ----
(***************************************************************************)
(* Model of the products HTTP handlers (interface/products_handler.py)     *)
(* over the ProductsRepository contract (domain/products_repository.py).   *)
(* The use case and the concrete repository are not part of the sources;   *)
(* they are modelled from the written specification (sections 4.1, 4.2, 7).*)
(***************************************************************************)
EXTENDS Integers, Sequences, FiniteSets

\* ---------------------------------------------------------------- bounds
MaxId == 4          \* identifiers handed out by the store: 1..MaxId
ScanMaxId == 5      \* identifiers of the collections a page scan runs over
MaxPage == 4        \* largest page number a client asks for
SizeBound == 3      \* small page sizes a client asks for: 0..SizeBound

\* ------------------------------------------------------ program constants
MaxSizePage == 100  \* Query(10, gt=0, le=100)
StatusOK == 200
StatusCreated == 201
StatusBadRequest == 400
StatusNotFound == 404

Names == {"a", "b"}
Messages == {"m1", "m2"}
Ids == 1..MaxId
Pages == 0..MaxPage
Sizes == (0..SizeBound) \cup {MaxSizePage, MaxSizePage + 1}

\* ------------------------------------------------------------ Python values
None == [tag |-> "None"]
NoExc == [type |-> "none", msg |-> ""]
ErrorKinds == {"NotFound", "ValidationError", "StorageError"}
Exceptions == [type : ErrorKinds, msg : Messages]

Product(id, name) == [id |-> id, name |-> name]
CreateBodyProduct == [name : Names]
UpdateBodyProduct == [name : Names]

\* `if product:` -- None is falsy, an entity is truthy
Truthy(v) == v # None

\* str(e): the message of the exception; its class is not part of the text
Str(e) == e.msg

Min(a, b) == IF a < b THEN a ELSE b
Max(a, b) == IF a > b THEN a ELSE b

\* seq[lo:hi] of a Python list, 0-based, negative indices counted from the end
PySliceIndex(i, n) == IF i < 0 THEN Max(0, i + n) ELSE Min(i, n)
PySlice(seq, lo, hi) ==
    LET n == Len(seq)
        l == PySliceIndex(lo, n)
        h == PySliceIndex(hi, n)
    IN  IF l < h THEN [k \in 1..(h - l) |-> seq[l + k]] ELSE << >>

\* ---------------------------------------------------------------- state
VARIABLES
    store,      \* the persisted collection, in creation order
    nextId,     \* next identifier the store assigns
    before,     \* the collection as it was when the last request arrived
    req,        \* the last request and what the use-case call did
    resp,       \* what the last request's caller got
    scanSize,   \* page scan: the fixed size_page
    scanPage,   \* page scan: number of pages fetched so far
    collected,  \* page scan: concatenation of the pages fetched so far
    emptySeen   \* page scan: an empty page has been returned

vars == <<store, nextId, before, req, resp, scanSize, scanPage, collected, emptySeen>>
scanVars == <<scanSize, scanPage, collected, emptySeen>>

IdsOf(s) == {s[i].id : i \in 1..Len(s)}
Exists(s, id) == id \in IdsOf(s)
IndexOf(s, id) == CHOOSE i \in 1..Len(s) : s[i].id = id

\* ------------------------------------------- repository (contract, 4.1 / 7)
\* Every operation yields [raised, exc, value, store]: either it raises exc
\* and leaves the store alone, or it returns value and the new store.
\* env is what the storage does to this call: NoExc, or the error it raises.
\* An absent identifier (NotFound, 4.1) reaches the handlers of
\* get_product_by_id and update_product as the falsy result they test
\* (`if product:`, `if updated_product:`); delete_product returns None in
\* every case, so for an absent identifier it is either silent or raises.
Returned(v, s) == [raised |-> FALSE, exc |-> NoExc, value |-> v, store |-> s]
Raised(e, s) == [raised |-> TRUE, exc |-> e, value |-> None, store |-> s]

ProductsRepository_get_products(s, env) ==
    IF env # NoExc THEN Raised(env, s) ELSE Returned(s, s)

ProductsRepository_get_product_by_id(s, product_id, env) ==
    IF env # NoExc THEN Raised(env, s)
    ELSE IF Exists(s, product_id) THEN Returned(s[IndexOf(s, product_id)], s)
    ELSE Returned(None, s)

ProductsRepository_create_product(s, nid, product, env) ==
    IF env # NoExc THEN Raised(env, s)
    ELSE LET p == Product(nid, product.name)
         IN  Returned(p, Append(s, p))

ProductsRepository_update_product(s, product_id, update_body, env) ==
    IF env # NoExc THEN Raised(env, s)
    ELSE IF Exists(s, product_id)
         THEN LET p == Product(product_id, update_body.name)
              IN  Returned(p, [s EXCEPT ![IndexOf(s, product_id)] = p])
    ELSE Returned(None, s)

RemoveAt(s, i) == SubSeq(s, 1, i - 1) \o SubSeq(s, i + 1, Len(s))

ProductsRepository_delete_product(s, product_id, env) ==
    IF env # NoExc THEN Raised(env, s)
    ELSE IF Exists(s, product_id)
         THEN Returned(None, RemoveAt(s, IndexOf(s, product_id)))
    ELSE Returned(None, s)

\* -------------------------------------------------------- use case (4.2)
ProductsUseCase_get_products(s, env) == ProductsRepository_get_products(s, env)
ProductsUseCase_get_product_by_id(s, id, env) == ProductsRepository_get_product_by_id(s, id, env)
ProductsUseCase_create_product(s, nid, body, env) == ProductsRepository_create_product(s, nid, body, env)
ProductsUseCase_update_product(s, id, body, env) == ProductsRepository_update_product(s, id, body, env)
ProductsUseCase_delete_product(s, id, env) == ProductsRepository_delete_product(s, id, env)

\* ------------------------------------------------- what a caller receives
NoContent == [tag |-> "none"]
Response(status, content) ==
    [kind |-> "response", status |-> status, content |-> content, detail |-> "", exc |-> NoExc]
HTTPException(status, detail) ==
    [kind |-> "http_exception", status |-> status, content |-> NoContent, detail |-> detail, exc |-> NoExc]
\* an exception no handler catches leaves the handler as it is
Propagated(e) ==
    [kind |-> "raised", status |-> 0, content |-> NoContent, detail |-> "", exc |-> e]
\* a query parameter outside its declared range never reaches the handler body
Rejected ==
    [kind |-> "rejected", status |-> 0, content |-> NoContent, detail |-> "", exc |-> NoExc]
NoResponse ==
    [kind |-> "none", status |-> 0, content |-> NoContent, detail |-> "", exc |-> NoExc]

PaginatedProductList(items, total_items) == [items |-> items, total_items |-> total_items]


\* --------------------------------------------------------------- handlers
\* page: int = Query(1, gt=0), size_page: int = Query(10, gt=0, le=100)
ValidQuery(page, size_page) == page > 0 /\ size_page > 0 /\ size_page <= MaxSizePage

\* faulty variants of get_products' body, used to show the properties below
\* depend on the arithmetic of lines 34-38
get_products_respond_LongPage(call, page, size_page) ==
    IF call.raised THEN Propagated(call.exc)
    ELSE LET all_products == call.value
             start_idx == (page - 1) * size_page
             end_idx == start_idx + size_page + 1
         IN  Response(StatusOK,
                      PaginatedProductList(PySlice(all_products, start_idx, end_idx),
                                           Len(all_products)))

get_products_respond_ZeroBasedPage(call, page, size_page) ==
    IF call.raised THEN Propagated(call.exc)
    ELSE LET all_products == call.value
             start_idx == page * size_page
             end_idx == start_idx + size_page
         IN  Response(StatusOK,
                      PaginatedProductList(PySlice(all_products, start_idx, end_idx),
                                           Len(all_products)))

get_products_respond_CountPage(call, page, size_page) ==
    IF call.raised THEN Propagated(call.exc)
    ELSE LET all_products == call.value
             start_idx == (page - 1) * size_page
             end_idx == start_idx + size_page
             items == PySlice(all_products, start_idx, end_idx)
         IN  Response(StatusOK, PaginatedProductList(items, Len(items)))

get_products_respond_PageNotFound(call, page, size_page) ==
    IF call.raised THEN Propagated(call.exc)
    ELSE LET all_products == call.value
             start_idx == (page - 1) * size_page
             end_idx == start_idx + size_page
             items == PySlice(all_products, start_idx, end_idx)
         IN  IF items = << >> THEN HTTPException(StatusNotFound, "Page not found")
             ELSE Response(StatusOK, PaginatedProductList(items, Len(all_products)))

get_products_respond_Overlap(call, page, size_page) ==
    IF call.raised THEN Propagated(call.exc)
    ELSE LET all_products == call.value
             start_idx == (page - 1) * size_page
             end_idx == start_idx + size_page
         IN  Response(StatusOK,
                      PaginatedProductList(PySlice(all_products, Max(0, start_idx - 1), end_idx),
                                           Len(all_products)))

\* body of get_products, given what products_use_case.get_products() did
get_products_respond(call, page, size_page) ==
    IF call.raised THEN Propagated(call.exc)
    ELSE LET all_products == call.value
             start_idx == (page - 1) * size_page
             end_idx == start_idx + size_page
         IN  Response(StatusOK,
                      PaginatedProductList(PySlice(all_products, start_idx, end_idx),
                                           Len(all_products)))

\* faulty variant: the result is returned without the `if product:` test
get_product_respond_Unchecked(call) ==
    IF call.raised THEN Propagated(call.exc)
    ELSE Response(StatusOK, call.value)

\* body of get_product, given what products_use_case.get_product_by_id() did
get_product_respond(call) ==
    IF call.raised THEN Propagated(call.exc)
    ELSE LET product == call.value
         IN  IF Truthy(product) THEN Response(StatusOK, product)
             ELSE HTTPException(StatusNotFound, "Product not found")

\* faulty variant: `except ValidationError` in place of `except Exception`
create_product_respond_NarrowExcept(call) ==
    IF call.raised
    THEN IF call.exc.type = "ValidationError"
         THEN HTTPException(StatusBadRequest, Str(call.exc))
         ELSE Propagated(call.exc)
    ELSE Response(StatusCreated, call.value)

\* body of create_product: try / except Exception
create_product_respond(call) ==
    IF call.raised THEN HTTPException(StatusBadRequest, Str(call.exc))
    ELSE LET new_product == call.value
         IN  Response(StatusCreated, new_product)

\* faulty variant: the result is returned without the `if updated_product:` test
update_product_respond_Unchecked(call) ==
    IF call.raised THEN Propagated(call.exc)
    ELSE Response(StatusOK, call.value)

\* body of update_product
update_product_respond(call) ==
    IF call.raised THEN Propagated(call.exc)
    ELSE LET updated_product == call.value
         IN  IF Truthy(updated_product) THEN Response(StatusOK, updated_product)
             ELSE HTTPException(StatusNotFound, "Product not found")

\* body of delete_product: the call's result is not looked at
delete_product_respond(call) ==
    IF call.raised THEN Propagated(call.exc)
    ELSE Response(StatusOK, [message |-> "Product deleted successfully"])

StorageErrors == {e \in Exceptions : e.type = "StorageError"}
ValidationErrors == {e \in Exceptions : e.type = "ValidationError"}
NotFoundErrors == {e \in Exceptions : e.type = "NotFound"}

NoBody == [name |-> ""]
Request(op, product_id, page, size_page, body, env) ==
    [op |-> op, product_id |-> product_id, page |-> page, size_page |-> size_page,
     body |-> body, env |-> env]
NoRequest == Request("none", 0, 0, 0, NoBody, NoExc)

\* GET /products
get_products ==
    \E page \in Pages, size_page \in Sizes, env \in {NoExc} \cup StorageErrors :
        /\ before' = store
        /\ IF ~ValidQuery(page, size_page)
           THEN /\ req' = Request("get_products", 0, page, size_page, NoBody, NoExc)
                /\ resp' = Rejected
                /\ store' = store
           ELSE LET call == ProductsUseCase_get_products(store, env)
                IN  /\ req' = Request("get_products", 0, page, size_page, NoBody, env)
                    /\ resp' = get_products_respond(call, page, size_page)
                    /\ store' = call.store
        /\ UNCHANGED <<nextId, scanVars>>

\* GET /products/{product_id}
get_product ==
    \E product_id \in Ids, env \in {NoExc} \cup StorageErrors :
        LET call == ProductsUseCase_get_product_by_id(store, product_id, env)
        IN  /\ before' = store
            /\ req' = Request("get_product", product_id, 0, 0, NoBody, env)
            /\ resp' = get_product_respond(call)
            /\ store' = call.store
            /\ UNCHANGED <<nextId, scanVars>>

\* POST /products
create_product ==
    \E product_body \in CreateBodyProduct,
       env \in {NoExc} \cup ValidationErrors \cup StorageErrors :
        LET call == ProductsUseCase_create_product(store, nextId, product_body, env)
        IN  /\ nextId <= MaxId
            /\ before' = store
            /\ req' = Request("create_product", 0, 0, 0, product_body, env)
            /\ resp' = create_product_respond(call)
            /\ store' = call.store
            /\ nextId' = IF call.raised THEN nextId ELSE nextId + 1
            /\ UNCHANGED scanVars

\* PUT /products/{product_id}
update_product ==
    \E product_id \in Ids, update_body \in UpdateBodyProduct,
       env \in {NoExc} \cup StorageErrors :
        LET call == ProductsUseCase_update_product(store, product_id, update_body, env)
        IN  /\ before' = store
            /\ req' = Request("update_product", product_id, 0, 0, update_body, env)
            /\ resp' = update_product_respond(call)
            /\ store' = call.store
            /\ UNCHANGED <<nextId, scanVars>>

\* DELETE /products/{product_id}; for an absent identifier the repository
\* either does nothing or raises NotFound (both policies are allowed, 4.1)
delete_product ==
    \E product_id \in Ids :
      \E env \in {NoExc} \cup StorageErrors
                 \cup (IF Exists(store, product_id) THEN {} ELSE NotFoundErrors) :
        LET call == ProductsUseCase_delete_product(store, product_id, env)
        IN  /\ before' = store
            /\ req' = Request("delete_product", product_id, 0, 0, NoBody, env)
            /\ resp' = delete_product_respond(call)
            /\ store' = call.store
            /\ UNCHANGED <<nextId, scanVars>>

Init ==
    /\ store = << >>
    /\ nextId = 1
    /\ before = << >>
    /\ req = NoRequest
    /\ resp = NoResponse
    /\ scanSize = 1
    /\ scanPage = 0
    /\ collected = << >>
    /\ emptySeen = FALSE

Next ==
    \/ get_products
    \/ get_product
    \/ create_product
    \/ update_product
    \/ delete_product

Spec == Init /\ [][Next]_vars


\* ------------------------------------------------ paging over one snapshot
\* Every collection the store can hold: identifiers are handed out in
\* increasing order and never reused, so a collection is a sequence of
\* products with strictly increasing identifiers.
RECURSIVE StoresOver(_)
StoresOver(n) ==
    IF n = 0 THEN {<< >>}
    ELSE LET prev == StoresOver(n - 1)
         IN  prev \cup {Append(s, Product(n, nm)) : s \in prev, nm \in Names}

LastId(s) == IF s = << >> THEN 0 ELSE s[Len(s)].id

\* a client reads page 1, 2, 3, ... with one size_page while nothing is written
InitPages ==
    /\ store \in StoresOver(ScanMaxId)
    /\ nextId \in (LastId(store) + 1)..(ScanMaxId + 1)
    /\ before = store
    /\ req = NoRequest
    /\ resp = NoResponse
    /\ scanSize \in {sz \in Sizes : ValidQuery(1, sz)}
    /\ scanPage = 0
    /\ collected = << >>
    /\ emptySeen = FALSE

ScanPage ==
    LET page == scanPage + 1
        call == ProductsUseCase_get_products(store, NoExc)
        r == get_products_respond(call, page, scanSize)
    IN  /\ scanPage < MaxPage
        /\ before' = store
        /\ req' = Request("get_products", 0, page, scanSize, NoBody, NoExc)
        /\ resp' = r
        /\ store' = call.store
        /\ scanPage' = page
        /\ collected' = IF r.kind = "response" THEN collected \o r.content.items
                        ELSE collected
        /\ emptySeen' = (emptySeen \/ (r.kind = "response" /\ r.content.items = << >>))
        /\ UNCHANGED <<nextId, scanSize>>

NextPages == ScanPage

SpecPages == InitPages /\ [][NextPages]_vars

\* ------------------------------------------------------------ properties
TypeOK ==
    /\ store \in StoresOver(Max(MaxId, ScanMaxId))
    /\ nextId \in (LastId(store) + 1)..(Max(MaxId, ScanMaxId) + 1)
    /\ before \in StoresOver(Max(MaxId, ScanMaxId))

IsListResponse == req.op = "get_products" /\ resp.kind = "response"
Completed == req.env = NoExc

C2_ContiguousSlice ==
    IsListResponse
    => LET start == (req.page - 1) * req.size_page
           end == Min(start + req.size_page, Len(before))
           items == resp.content.items
       IN  /\ Len(items) = Max(0, end - start)
           /\ \A k \in 1..Len(items) : items[k] = before[start + k]

IdSeq(s) == [i \in 1..Len(s) |-> s[i].id]

C2_Witness ==
    /\ IsListResponse
    /\ IdSeq(store) = <<1, 2, 3, 4, 5>>
    /\ scanPage = 2
    /\ req.page = 2 /\ req.size_page = 2
    /\ IdSeq(resp.content.items) = <<3, 4>>
    /\ resp.content.total_items = 5

\* C3: total_items is the length of the full collection whatever page and
\* size_page are, and it is taken from the very collection the items are cut from.
C3_TotalItems ==
    IsListResponse
    => /\ resp.content.total_items = Len(before)
       /\ store = before
       /\ resp.content.items
            = PySlice(before, (req.page - 1) * req.size_page,
                      (req.page - 1) * req.size_page + req.size_page)

C3_Witness ==
    /\ IsListResponse
    /\ Len(resp.content.items) > 0
    /\ resp.content.total_items > Len(resp.content.items)
    /\ req.page > 1

IsNotFoundResponse ==
    resp.kind = "http_exception" /\ resp.status = StatusNotFound

\* C5: DELETE of an identifier that is not in the store is answered 404 and
\* not with the confirmation; the 200 confirmation is given only when the
\* product existed and was removed.
C5_DeleteMissingIs404 ==
    (req.op = "delete_product" /\ req.env.type # "StorageError")
    => /\ ~Exists(before, req.product_id)
            => (IsNotFoundResponse /\ resp.kind # "response")
       /\ resp.kind = "response"
            => (Exists(before, req.product_id) /\ ~Exists(store, req.product_id))

C8_CreateProduct ==
    req.op = "create_product"
    => /\ req.env # NoExc
            => (resp = HTTPException(StatusBadRequest, req.env.msg) /\ store = before)
       /\ resp.kind = "response"
            => /\ req.env = NoExc
               /\ resp.status = StatusCreated
               /\ resp.content.name = req.body.name
               /\ store = Append(before, resp.content)
       /\ resp.kind \in {"response", "http_exception"}

C8_Witness ==
    /\ req.op = "create_product"
    /\ req.env.type = "StorageError"
    /\ resp.kind = "http_exception"
    /\ resp.status = StatusBadRequest
    /\ resp.detail = req.env.msg

\* what the handler of the last request answers when the use-case call ends as `call`
RespondTo(call) ==
    CASE req.op = "get_products" -> get_products_respond(call, req.page, req.size_page)
      [] req.op = "get_product" -> get_product_respond(call)
      [] req.op = "create_product" -> create_product_respond(call)
      [] req.op = "update_product" -> update_product_respond(call)
      [] req.op = "delete_product" -> delete_product_respond(call)

\* the ways a call of the last request ends as NotFound or ValidationError
OtherFailures ==
    {Raised(e, before) : e \in NotFoundErrors \cup ValidationErrors}
    \cup (IF req.op \in {"get_product", "update_product"}
          THEN {Returned(None, before)} ELSE {})

\* C9: a StorageError raised during any of the five operations reaches the
\* caller as an error: never a success response, and never an answer that a
\* NotFound or ValidationError outcome of the same request would also produce.
C9_StorageErrorVisible ==
    req.env.type = "StorageError"
    => /\ resp.kind \in {"raised", "http_exception"}
       /\ \A c \in OtherFailures : RespondTo(c) # resp

\* C10: with the collection and size_page fixed, pages 1, 2, 3, ... put one
\* after the other are the collection: what has been read so far is a prefix
\* of it (no overlap, nothing skipped), it is all of it once an empty page has
\* come back, and pages after an empty page add nothing.
C10_PagesPartition ==
    /\ Len(collected) <= Len(store)
    /\ collected = SubSeq(store, 1, Len(collected))
    /\ Len(collected) = Min(Len(store), scanPage * scanSize)
    /\ emptySeen => collected = store
    /\ emptySeen => (resp.kind = "response" /\ resp.content.items = << >>)

C10_Witness ==
    /\ emptySeen
    /\ scanPage = MaxPage
    /\ scanSize = 2
    /\ Len(store) >= 3
    /\ collected = store
    /\ resp.content.items = << >>

====
